---------------------------- MODULE Spec2Model ----------------------------
(***************************************************************************)
(* Game session lifecycle of the guess-the-number bot                      *)
(* (src/handlers/play_handlers.py): process_play / initialize_game start a *)
(* session, game_timer ends it on timeout, main_process_play evaluates one *)
(* guess, _game_lost / _game_won finalize it.                              *)
(*                                                                         *)
(* Every coroutine is a task; a task is suspended at each await of a       *)
(* storage, database or transport call, so one action of the model is one  *)
(* awaited call together with the synchronous code that follows it up to   *)
(* the next awaited call.  Tasks of one user interleave at these points.   *)
(***************************************************************************)
EXTENDS Integers, Sequences, FiniteSets

VARIABLES
    settings,      \* db: the user's stored settings record, None when absent
    fsmState,      \* FSMContext state of the user: "none", "game", "out_game"
    fsmData,       \* FSMContext data of the user
    dbState,       \* db: persisted user state
    games,         \* db: one entry (the target number) per started game; the game id is the index
    outcomes,      \* db: result records written by save_game_data(game_id, results)
    attemptsLeft,  \* db: attempts_left of the user
    gamesWon,      \* db: lifetime counter
    gamesLost,     \* db: lifetime counter
    tasks,         \* coroutines in flight (handlers and timers)
    messages,      \* messages sent to the user
    nPlay,         \* number of start requests dispatched so far
    nGuess         \* number of guesses dispatched so far

vars == <<settings, fsmState, fsmData, dbState, games, outcomes, attemptsLeft,
          gamesWon, gamesLost, tasks, messages, nPlay, nGuess>>

---------------------------------------------------------------------------
(* Bounds of the model *)

\* start requests (process_play calls) per behaviour, one handler at a time
MaxGames == 2
\* start requests per behaviour, sequential scenario runs
MaxScenarioGames == 1
\* guesses dispatched per behaviour, interleaved runs
MaxGuesses == 2
\* guesses dispatched per behaviour, sequential scenario runs
MaxScenarioGuesses == 3
\* start requests per behaviour when handlers interleave with each other
MaxInterleavedGames == 1
\* handler coroutines (start requests and guesses) in flight at once
MaxConcurrent == 2

---------------------------------------------------------------------------
(* Python's None and optional values: None is the empty set, a value v is   *)
(* {v}.  A dict is the set of its <<key, value>> pairs, so the empty dict   *)
(* and None are the same value, as they are for the tests "if data:" and    *)
(* "if user_settings:" of the source.                                       *)

None == {}
Some(v) == {v}
The(o) == CHOOSE v \in o : TRUE

\* the dict of a record
Dict(r) == {<<k, r[k]>> : k \in DOMAIN r}

\* k in d
HasKey(d, k) == \E p \in d : p[1] = k

\* d.get(k): None when the key is absent
Get(d, k) ==
    IF HasKey(d, k) THEN (CHOOSE p \in d : p[1] = k)[2] ELSE None

\* callback_query.from_user.id / message.from_user.id
UserId == Some(1)

\* the settings records over the given values, each field set or unset
ConfigsOver(rs, re, tl, at) ==
    [range_start : {None, Some(rs)}, range_end : {None, Some(re)},
     time_limit : {None, Some(tl)}, attempts : {None, Some(at)}]

\* stored settings of the interleaved runs: range [1,2], 5 seconds, 2 attempts
MainConfigs == ConfigsOver(1, 2, 5, 2)
MainGuesses == {1, 2}

\* stored settings of the sequential scenario runs: range [1,10], 60 seconds, 3 attempts
ScenarioConfig ==
    [range_start |-> Some(1), range_end |-> Some(10),
     time_limit |-> Some(60), attempts |-> Some(3)]
ScenarioGuesses == {3, 7, 9}

\* the state data of a user before the first update_data: the empty dict
NoData == {}

\* a settings record with at least one of the four values unset
Incomplete(c) ==
    \/ c.range_start = None \/ c.range_end = None
    \/ c.time_limit = None \/ c.attempts = None

---------------------------------------------------------------------------
(* Pure functions of the source *)

\* the result that stands for a KeyError raised by data[...]
KeyError == <<"KeyError">>

\* data[...] of check_missing_settings raises KeyError: range_start,
\* time_limit and attempts are always read, range_end only when range_start
\* is not None
RaisesKeyError(data) ==
    \/ ~HasKey(data, "range_start")
    \/ (Get(data, "range_start") # None /\ ~HasKey(data, "range_end"))
    \/ ~HasKey(data, "time_limit")
    \/ ~HasKey(data, "attempts")

\* check_missing_settings without the check of time_limit
check_missing_settings_no_time(data) ==
    IF data = {} THEN <<>>
    ELSE IF RaisesKeyError(data) THEN KeyError
    ELSE (IF Get(data, "range_start") = None \/ Get(data, "range_end") = None
             THEN <<"range">> ELSE <<>>)
         \o (IF Get(data, "attempts") = None THEN <<"attempts">> ELSE <<>>)

\* check_missing_settings with time_limit checked ahead of the range
check_missing_settings_time_first(data) ==
    IF data = {} THEN <<>>
    ELSE IF RaisesKeyError(data) THEN KeyError
    ELSE (IF Get(data, "time_limit") = None THEN <<"time">> ELSE <<>>)
         \o (IF Get(data, "range_start") = None \/ Get(data, "range_end") = None
                THEN <<"range">> ELSE <<>>)
         \o (IF Get(data, "attempts") = None THEN <<"attempts">> ELSE <<>>)

\* check_missing_settings(data): nothing for empty data ("if data:", line
\* 26), else the names of the unset settings, in order ("range" is the entry
\* for range_start / range_end, "time" the one for time_limit, "attempts"
\* the one for attempts)
check_missing_settings(data) ==
    IF data = {} THEN <<>>
    ELSE IF RaisesKeyError(data) THEN KeyError
    ELSE (IF Get(data, "range_start") = None \/ Get(data, "range_end") = None
             THEN <<"range">> ELSE <<>>)
         \o (IF Get(data, "time_limit") = None THEN <<"time">> ELSE <<>>)
         \o (IF Get(data, "attempts") = None THEN <<"attempts">> ELSE <<>>)

\* evaluate_guess with the comparison ahead of the check of attempts_left
evaluate_guess_compare_first(attempts_left, user_number, target_number) ==
    IF user_number = target_number THEN "won_game"
    ELSE IF attempts_left = 0 THEN "game_lost_attempts"
    ELSE IF user_number < target_number THEN "my_number_is_higher"
    ELSE "my_number_is_less"

\* evaluate_guess with the two hints exchanged
evaluate_guess_swapped_hints(attempts_left, user_number, target_number) ==
    IF attempts_left = 0 THEN "game_lost_attempts"
    ELSE IF user_number > target_number THEN "my_number_is_higher"
    ELSE IF user_number = target_number THEN "won_game"
    ELSE "my_number_is_less"

\* evaluate_guess with a guess equal to the target taken as too high
evaluate_guess_no_win(attempts_left, user_number, target_number) ==
    IF attempts_left = 0 THEN "game_lost_attempts"
    ELSE IF user_number < target_number THEN "my_number_is_higher"
    ELSE "my_number_is_less"

\* main_process_play, lines 160-180: what one guess leads to, given the
\* decremented attempts_left
evaluate_guess(attempts_left, user_number, target_number) ==
    IF attempts_left = 0 THEN "game_lost_attempts"
    ELSE IF user_number < target_number THEN "my_number_is_higher"
    ELSE IF user_number = target_number THEN "won_game"
    ELSE "my_number_is_less"

---------------------------------------------------------------------------
(* State storage and database operations (FSMContext, module db) *)

\* state.update_data(**kw): the keys of kw are set in the state data
update_data(d, kw) == {p \in d : ~HasKey(kw, p[1])} \cup kw

\* user_settings_to_dict(user_id): the stored settings as a dict, None when
\* there are none
user_settings_to_dict(uid) ==
    IF uid = UserId /\ settings # None THEN Dict(The(settings)) ELSE None

\* get_max_game_id(user_id): the id of the user's latest game
get_max_game_id == Len(games)

\* set_attempts_left(user_id): attempts_left becomes the configured attempts
set_attempts_left == The(The(settings).attempts)

\* decrement_attempts_left(user_id): attempts_left minus one
decrement_attempts_left == attemptsLeft - 1

\* load_user_settings(user_id)[3]: the configured attempts
load_user_attempts == The(settings).attempts

\* save_user_state(user_id, s): the persisted state of user_id's row
save_user_state(uid, s) == IF uid = UserId THEN s ELSE dbState

\* the message filter in front of main_process_play: a numeric text of a
\* user whose state is GameStates.game
GuessFilter == fsmState = "game"

---------------------------------------------------------------------------
(* Tasks *)

\* data: the local user_settings, then data; missing: the local
\* missing_settings; session: the game a timer was started for; entered: the
\* FSM state when a start request was entered, and for a timer whether its
\* session had ended when its sleep was over (session and entered are only
\* read by the properties)
NewTask(kind, id, pc) ==
    [kind |-> kind, id |-> id, pc |-> pc, uid |-> UserId, data |-> NoData,
     missing |-> <<>>, target |-> None, guess |-> 0, al |-> None,
     attempts |-> None, game_id |-> 0, res |-> "", msg |-> "",
     session |-> 0, entered |-> ""]

Handlers == {t \in tasks : t.kind # "timer"}
Timers == {t \in tasks : t.kind = "timer"}

\* the positions inside _game_lost and _game_won
FinalizePcs == {"get_id", "save_result", "set_out", "save_out", "increment"}

\* _game_lost or _game_won has run to its end on game s: s has an outcome
\* record and the coroutine that wrote it is past the increment
SessionEnded(s) ==
    \E o \in outcomes :
        /\ o.game_id = s
        /\ ~ \E t \in tasks :
               t.kind = o.kind /\ t.id = o.id /\ t.pc \in FinalizePcs

Step(t, t2) == tasks' = (tasks \ {t}) \cup {t2}
Finish(t) == tasks' = tasks \ {t}

\* the parameter a message template is formatted with
MsgParam(t) ==
    CASE t.msg = "play_prompt" -> t.al
      [] t.msg = "my_number_is_higher" -> t.al
      [] t.msg = "my_number_is_less" -> t.al
      [] t.msg = "won_game" -> Some(The(t.attempts) - The(t.al))
      [] t.msg = "game_lost_time" -> Get(t.data, "time_limit")
      [] OTHER -> None

---------------------------------------------------------------------------
(* Initial state *)

InitDb ==
    /\ fsmState = "none"
    /\ fsmData = NoData
    /\ dbState = "none"
    /\ games = <<>>
    /\ outcomes = {}
    /\ attemptsLeft = 0
    /\ gamesWon = 0
    /\ gamesLost = 0
    /\ tasks = {}
    /\ messages = {}
    /\ nPlay = 0
    /\ nGuess = 0

Init ==
    /\ settings \in {None} \cup {Some(c) : c \in MainConfigs}
    /\ InitDb

---------------------------------------------------------------------------
(* Messages to the user *)

\* missing: the list a "missing_settings" message is formatted with;
\* game_id: the game _game_lost / _game_won was run on before the message
Sent(t) ==
    messages \cup {[key |-> t.msg, kind |-> t.kind, id |-> t.id,
                    guess |-> t.guess, n |-> MsgParam(t),
                    missing |-> t.missing, game_id |-> t.game_id]}

\* await callback_query.message.answer(...) / await message.answer(...):
\* the message is out; a start request goes on to callback_query.answer(),
\* a guess handler and a timer are through
message_answer ==
    \E t \in tasks :
        /\ t.pc = "answer"
        /\ messages' = Sent(t)
        /\ IF t.kind = "play"
              THEN Step(t, [t EXCEPT !.pc = "callback_answer"])
              ELSE Finish(t)
        /\ UNCHANGED <<settings, fsmState, fsmData, dbState, games, outcomes,
                       attemptsLeft, gamesWon, gamesLost, nPlay, nGuess>>

\* await callback_query.answer(): the start request is through
callback_query_answer ==
    \E t \in tasks :
        /\ t.pc = "callback_answer"
        /\ Finish(t)
        /\ UNCHANGED <<settings, fsmState, fsmData, dbState, games, outcomes,
                       attemptsLeft, gamesWon, gamesLost, messages, nPlay, nGuess>>

---------------------------------------------------------------------------
(* process_play *)

\* the handler is entered with the callback and runs up to
\* await user_settings_to_dict(user_id)
process_play(Max) ==
    /\ nPlay < Max
    /\ Cardinality(Handlers) < MaxConcurrent
    /\ nPlay' = nPlay + 1
    /\ tasks' = tasks \cup
          {[NewTask("play", nPlay + 1, "load") EXCEPT !.entered = fsmState]}
    /\ UNCHANGED <<settings, fsmState, fsmData, dbState, games, outcomes,
                   attemptsLeft, gamesWon, gamesLost, messages, nGuess>>

\* process_play_load without the branch for absent settings
process_play_load_without_absent_branch ==
    \E t \in tasks :
        /\ t.kind = "play" /\ t.pc = "load"
        /\ Step(t, [t EXCEPT !.pc = "update_data",
                             !.data = user_settings_to_dict(t.uid)])
        /\ UNCHANGED <<settings, fsmState, fsmData, dbState, games, outcomes,
                       attemptsLeft, gamesWon, gamesLost, messages, nPlay, nGuess>>

\* user_settings = await user_settings_to_dict(user_id); if user_settings:
process_play_load ==
    \E t \in tasks :
        /\ t.kind = "play" /\ t.pc = "load"
        /\ LET user_settings == user_settings_to_dict(t.uid)
           IN  IF user_settings # {}
                  THEN Step(t, [t EXCEPT !.pc = "update_data",
                                         !.data = user_settings])
                  ELSE Step(t, [t EXCEPT !.pc = "answer",
                                         !.msg = "my_settings_error"])
        /\ UNCHANGED <<settings, fsmState, fsmData, dbState, games, outcomes,
                       attemptsLeft, gamesWon, gamesLost, messages, nPlay, nGuess>>

\* await state.update_data(**user_settings)
process_play_update_data ==
    \E t \in tasks :
        /\ t.kind = "play" /\ t.pc = "update_data"
        /\ fsmData' = update_data(fsmData, t.data)
        /\ Step(t, [t EXCEPT !.pc = "get_data"])
        /\ UNCHANGED <<settings, fsmState, dbState, games, outcomes,
                       attemptsLeft, gamesWon, gamesLost, messages, nPlay, nGuess>>

\* data = await state.get_data();
\* missing_settings = await check_missing_settings(data) (a coroutine with
\* no await of its own); if missing_settings: ... else: initialize_game up
\* to await state.set_state
process_play_get_data ==
    \E t \in tasks :
        /\ t.kind = "play" /\ t.pc = "get_data"
        /\ LET data == fsmData
               missing_settings == check_missing_settings(data)
           IN  IF missing_settings = KeyError
                  THEN Finish(t)
                  ELSE IF missing_settings # <<>>
                  THEN Step(t, [t EXCEPT !.pc = "answer", !.data = data,
                                         !.msg = "missing_settings",
                                         !.missing = missing_settings])
                  ELSE Step(t, [t EXCEPT !.pc = "set_state", !.data = data])
        /\ UNCHANGED <<settings, fsmState, fsmData, dbState, games, outcomes,
                       attemptsLeft, gamesWon, gamesLost, messages, nPlay, nGuess>>

---------------------------------------------------------------------------
(* initialize_game *)

\* initialize_game called with a callback whose from_user.id is None and
\* with the data of complete settings
initialize_game_unresolved(Max) ==
    /\ nPlay < Max
    /\ Cardinality(Handlers) < MaxConcurrent
    /\ settings # None
    /\ ~Incomplete(The(settings))
    /\ nPlay' = nPlay + 1
    /\ tasks' = tasks \cup
          {[NewTask("play", nPlay + 1, "set_state") EXCEPT
               !.uid = None, !.entered = fsmState,
               !.data = update_data(fsmData, Dict(The(settings)))]}
    /\ UNCHANGED <<settings, fsmState, fsmData, dbState, games, outcomes,
                   attemptsLeft, gamesWon, gamesLost, messages, nGuess>>

\* await state.set_state(GameStates.game)
initialize_game_set_state ==
    \E t \in tasks :
        /\ t.kind = "play" /\ t.pc = "set_state"
        /\ fsmState' = "game"
        /\ Step(t, [t EXCEPT !.pc = "save_state"])
        /\ UNCHANGED <<settings, fsmData, dbState, games, outcomes,
                       attemptsLeft, gamesWon, gamesLost, messages, nPlay, nGuess>>

\* await save_user_state(user_id, "game");
\* target_number = randint(data['range_start'], data['range_end']), which
\* raises for a missing key, a None and an empty range;
\* if user_id is None: return
initialize_game_save_state ==
    \E t \in tasks :
        /\ t.kind = "play" /\ t.pc = "save_state"
        /\ dbState' = save_user_state(t.uid, "game")
        /\ LET a == Get(t.data, "range_start")
               b == Get(t.data, "range_end")
           IN  IF a = None \/ b = None
                  THEN Finish(t)
                  ELSE IF The(a) > The(b)
                  THEN Finish(t)
                  ELSE \E target_number \in The(a) .. The(b) :
                          IF t.uid = None
                             THEN Finish(t)
                             ELSE Step(t, [t EXCEPT !.pc = "update_target",
                                                    !.target = Some(target_number)])
        /\ UNCHANGED <<settings, fsmState, fsmData, games, outcomes,
                       attemptsLeft, gamesWon, gamesLost, messages, nPlay, nGuess>>

\* await state.update_data(target_number=target_number)
initialize_game_update_target ==
    \E t \in tasks :
        /\ t.kind = "play" /\ t.pc = "update_target"
        /\ fsmData' = update_data(fsmData, {<<"target_number", t.target>>})
        /\ Step(t, [t EXCEPT !.pc = "save_game"])
        /\ UNCHANGED <<settings, fsmState, dbState, games, outcomes,
                       attemptsLeft, gamesWon, gamesLost, messages, nPlay, nGuess>>

\* await save_game_data(user_id=..., target_number=...);
\* await start_game_timer(...) (a coroutine with no await of its own):
\* asyncio.create_task(game_timer())
initialize_game_save_game ==
    \E t \in tasks :
        /\ t.kind = "play" /\ t.pc = "save_game"
        /\ games' = Append(games, The(t.target))
        /\ tasks' = (tasks \ {t}) \cup
              {[t EXCEPT !.pc = "set_attempts", !.session = Len(games) + 1],
               [NewTask("timer", Len(games) + 1, "sleep") EXCEPT
                    !.data = t.data, !.session = Len(games) + 1]}
        /\ UNCHANGED <<settings, fsmState, fsmData, dbState, outcomes,
                       attemptsLeft, gamesWon, gamesLost, messages, nPlay, nGuess>>

\* attempts_left = await set_attempts_left(user_id)
initialize_game_set_attempts ==
    \E t \in tasks :
        /\ t.kind = "play" /\ t.pc = "set_attempts"
        /\ attemptsLeft' = set_attempts_left
        /\ Step(t, [t EXCEPT !.pc = "answer", !.msg = "play_prompt",
                             !.al = Some(set_attempts_left)])
        /\ UNCHANGED <<settings, fsmState, fsmData, dbState, games, outcomes,
                       gamesWon, gamesLost, messages, nPlay, nGuess>>

---------------------------------------------------------------------------
(* game_timer *)

\* await asyncio.sleep(data['time_limit']): the sleep is over
game_timer_sleep ==
    \E t \in tasks :
        /\ t.kind = "timer" /\ t.pc = "sleep"
        /\ Step(t, [t EXCEPT !.pc = "get_state",
                             !.entered = IF SessionEnded(t.session)
                                            THEN "ended" ELSE "running"])
        /\ UNCHANGED <<settings, fsmState, fsmData, dbState, games, outcomes,
                       attemptsLeft, gamesWon, gamesLost, messages, nPlay, nGuess>>

\* current_state = await state.get_state();
\* if current_state == GameStates.game: _game_lost(...)
game_timer ==
    \E t \in tasks :
        /\ t.kind = "timer" /\ t.pc = "get_state"
        /\ IF fsmState = "game"
              THEN Step(t, [t EXCEPT !.pc = "get_id", !.res = "lost",
                                     !.msg = "game_lost_time"])
              ELSE Finish(t)
        /\ UNCHANGED <<settings, fsmState, fsmData, dbState, games, outcomes,
                       attemptsLeft, gamesWon, gamesLost, messages, nPlay, nGuess>>

---------------------------------------------------------------------------
(* _game_lost and _game_won, run by a timer or by a guess handler *)

\* game_id = await get_max_game_id(user_id)
game_over_get_id ==
    \E t \in tasks :
        /\ t.pc = "get_id"
        /\ Step(t, [t EXCEPT !.pc = "save_result", !.game_id = get_max_game_id])
        /\ UNCHANGED <<settings, fsmState, fsmData, dbState, games, outcomes,
                       attemptsLeft, gamesWon, gamesLost, messages, nPlay, nGuess>>

\* _game_lost / _game_won without the save of the result
game_over_save_result_skipped ==
    \E t \in tasks :
        /\ t.pc = "save_result"
        /\ Step(t, [t EXCEPT !.pc = "set_out"])
        /\ UNCHANGED <<settings, fsmState, fsmData, dbState, games, outcomes,
                       attemptsLeft, gamesWon, gamesLost, messages, nPlay, nGuess>>

\* await save_game_data(game_id=game_id, user_id=user_id, results=...)
game_over_save_result ==
    \E t \in tasks :
        /\ t.pc = "save_result"
        /\ outcomes' = outcomes \cup
              {[game_id |-> t.game_id, result |-> t.res, kind |-> t.kind, id |-> t.id]}
        /\ Step(t, [t EXCEPT !.pc = "set_out"])
        /\ UNCHANGED <<settings, fsmState, fsmData, dbState, games,
                       attemptsLeft, gamesWon, gamesLost, messages, nPlay, nGuess>>

\* await state.set_state(GameStates.out_game)
game_over_set_state ==
    \E t \in tasks :
        /\ t.pc = "set_out"
        /\ fsmState' = "out_game"
        /\ Step(t, [t EXCEPT !.pc = "save_out"])
        /\ UNCHANGED <<settings, fsmData, dbState, games, outcomes,
                       attemptsLeft, gamesWon, gamesLost, messages, nPlay, nGuess>>

\* await save_user_state(user_id, "out_game")
game_over_save_state ==
    \E t \in tasks :
        /\ t.pc = "save_out"
        /\ dbState' = save_user_state(t.uid, "out_game")
        /\ Step(t, [t EXCEPT !.pc = "increment"])
        /\ UNCHANGED <<settings, fsmState, fsmData, games, outcomes,
                       attemptsLeft, gamesWon, gamesLost, messages, nPlay, nGuess>>

\* await increment_games_lost(user_id) / increment_games_won(user_id); back
\* in the caller, up to its next await: get_time_since_game_start after
\* _game_won, else the message about the end of the game
game_over_increment ==
    \E t \in tasks :
        /\ t.pc = "increment"
        /\ gamesLost' = IF t.res = "lost" THEN gamesLost + 1 ELSE gamesLost
        /\ gamesWon' = IF t.res = "won" THEN gamesWon + 1 ELSE gamesWon
        /\ Step(t, [t EXCEPT !.pc = IF t.res = "won" THEN "time_since"
                                                     ELSE "answer"])
        /\ UNCHANGED <<settings, fsmState, fsmData, dbState, games, outcomes,
                       attemptsLeft, messages, nPlay, nGuess>>

---------------------------------------------------------------------------
(* main_process_play *)

\* the handler is entered with the user's text and runs up to
\* await state.get_data()
main_process_play(Guesses, Max) ==
    /\ GuessFilter
    /\ nGuess < Max
    /\ Cardinality(Handlers) < MaxConcurrent
    /\ nGuess' = nGuess + 1
    /\ \E user_number \in Guesses :
          tasks' = tasks \cup
             {[NewTask("guess", nGuess + 1, "get_data") EXCEPT
                  !.guess = user_number]}
    /\ UNCHANGED <<settings, fsmState, fsmData, dbState, games, outcomes,
                   attemptsLeft, gamesWon, gamesLost, messages, nPlay>>

\* data = await state.get_data(); target_number = data.get('target_number')
main_process_play_get_data ==
    \E t \in tasks :
        /\ t.kind = "guess" /\ t.pc = "get_data"
        /\ Step(t, [t EXCEPT !.pc = "decrement",
                             !.target = Get(fsmData, "target_number")])
        /\ UNCHANGED <<settings, fsmState, fsmData, dbState, games, outcomes,
                       attemptsLeft, gamesWon, gamesLost, messages, nPlay, nGuess>>

\* attempts_left = await decrement_attempts_left(user_id), then the branch
\* on attempts_left and on the comparison with target_number, up to the
\* next await
main_process_play_decrement ==
    \E t \in tasks :
        /\ t.kind = "guess" /\ t.pc = "decrement"
        /\ attemptsLeft' = decrement_attempts_left
        /\ LET al == decrement_attempts_left
               t1 == [t EXCEPT !.al = Some(al)]
           IN  IF al # 0 /\ t.target = None
                  THEN \* int < None raises TypeError
                       Finish(t)
                  ELSE LET r == evaluate_guess(al, t.guess,
                                    IF t.target = None THEN 0 ELSE The(t.target))
                       IN  CASE r = "game_lost_attempts" ->
                                  Step(t, [t1 EXCEPT !.pc = "get_id", !.res = "lost",
                                                     !.msg = r])
                             [] r = "won_game" ->
                                  Step(t, [t1 EXCEPT !.pc = "load_settings",
                                                     !.res = "won", !.msg = r])
                             [] OTHER ->
                                  Step(t, [t1 EXCEPT !.pc = "answer", !.msg = r])
        /\ UNCHANGED <<settings, fsmState, fsmData, dbState, games, outcomes,
                       gamesWon, gamesLost, messages, nPlay, nGuess>>

\* all_data_user = await load_user_settings(user_id);
\* attempts = all_data_user[3]
main_process_play_load_settings ==
    \E t \in tasks :
        /\ t.kind = "guess" /\ t.pc = "load_settings"
        /\ Step(t, [t EXCEPT !.pc = "get_id", !.attempts = load_user_attempts])
        /\ UNCHANGED <<settings, fsmState, fsmData, dbState, games, outcomes,
                       attemptsLeft, gamesWon, gamesLost, messages, nPlay, nGuess>>

\* seconds_passed = await get_time_since_game_start(user_id)
get_time_since_game_start ==
    \E t \in tasks :
        /\ t.kind = "guess" /\ t.pc = "time_since"
        /\ Step(t, [t EXCEPT !.pc = "answer"])
        /\ UNCHANGED <<settings, fsmState, fsmData, dbState, games, outcomes,
                       attemptsLeft, gamesWon, gamesLost, messages, nPlay, nGuess>>

---------------------------------------------------------------------------
(* Specifications *)

\* the steps of the coroutines in flight, but for the two of a timer before
\* its _game_lost
HandlerStep ==
    \/ process_play_load
    \/ process_play_update_data
    \/ process_play_get_data
    \/ initialize_game_set_state
    \/ initialize_game_save_state
    \/ initialize_game_update_target
    \/ initialize_game_save_game
    \/ initialize_game_set_attempts
    \/ main_process_play_get_data
    \/ main_process_play_decrement
    \/ main_process_play_load_settings
    \/ game_over_get_id
    \/ game_over_save_result
    \/ game_over_set_state
    \/ game_over_save_state
    \/ game_over_increment
    \/ get_time_since_game_start
    \/ message_answer
    \/ callback_query_answer

\* every interleaving of start requests, guesses, timers and their steps
Next ==
    \/ process_play(MaxInterleavedGames)
    \/ initialize_game_unresolved(MaxInterleavedGames)
    \/ main_process_play(MainGuesses, MaxGuesses)
    \/ game_timer_sleep
    \/ game_timer
    \/ HandlerStep

Spec == Init /\ [][Next]_vars

\* every interleaving of start requests, guesses, timers and their steps,
\* every callback carrying the user's id
ResolvedNext ==
    \/ process_play(MaxInterleavedGames)
    \/ main_process_play(MainGuesses, MaxGuesses)
    \/ game_timer_sleep
    \/ game_timer
    \/ HandlerStep

ResolvedSpec == Init /\ [][ResolvedNext]_vars

\* one handler at a time, every user id resolved: a start request or a
\* guess is handled only when no other handler is in flight; the timers run
\* beside the handlers and interleave with them at every awaited call
SerialNext ==
    \/ (Handlers = {} /\ process_play(MaxGames))
    \/ (Handlers = {} /\ main_process_play(MainGuesses, MaxGuesses))
    \/ game_timer_sleep
    \/ game_timer
    \/ HandlerStep

SerialSpec == Init /\ [][SerialNext]_vars

\* sequential runs with no timeout: a start request or a guess is handled
\* only when no other handler is in flight, and no timer's sleep is over
SeqInit ==
    /\ settings \in {None} \cup {Some(c) : c \in ConfigsOver(1, 10, 60, 3)}
    /\ InitDb

SeqNext ==
    \/ (Handlers = {} /\ process_play(MaxScenarioGames))
    \/ (Handlers = {} /\ initialize_game_unresolved(MaxScenarioGames))
    \/ (Handlers = {} /\ main_process_play(ScenarioGuesses, MaxScenarioGuesses))
    \/ HandlerStep

SeqSpec == SeqInit /\ [][SeqNext]_vars

---------------------------------------------------------------------------
(* Properties *)

\* the task that takes the step
Stepping == tasks \ tasks'

\* C1: a session is finalized at most once: no game has two outcome
\* records (so it is never both won and lost, nor counted twice).
C1_FinalizedAtMostOnce ==
    \A o1, o2 \in outcomes : o1.game_id = o2.game_id => o1 = o2

\* C2: the timer started for session N, firing after session N has ended
\* and session N+1 has started, never runs _game_lost on session N+1.
C2_TimerFinalizesOwnSession ==
    \A t \in Timers :
        (t.entered = "ended" /\ t.pc \in FinalizePcs \ {"get_id"})
        => t.game_id = t.session

\* C3: a timer that fires after its session has ended does nothing: having
\* read the state it ends at once, writing no outcome, counter, state or
\* message.
C3_LateTimerIsNoOp ==
    [][\A t \in Stepping :
          (t.kind = "timer" /\ t.pc = "get_state" /\ t.entered = "ended")
          => /\ tasks' = tasks \ {t}
             /\ UNCHANGED <<fsmState, dbState, outcomes, gamesWon, gamesLost, messages>>]_vars

\* C4: a guess whose decrement brings attempts_left to 0 is a loss whatever
\* its value: its handler runs _game_lost and answers with the
\* lost-by-attempts message, and no hint and no win is ever reported with 0
\* attempts left.
C4_ExhaustedGuessIsLoss ==
    /\ \A t \in tasks :
          (t.kind = "guess" /\ t.al = Some(0))
          => /\ t.res = "lost" /\ t.msg = "game_lost_attempts"
             /\ t.pc \in FinalizePcs \cup {"answer"}
    /\ \A m \in messages :
          /\ m.key \in {"my_number_is_higher", "my_number_is_less"} => m.n # Some(0)
          /\ (m.key = "won_game" /\ settings # None) => m.n # The(settings).attempts

\* C4 witness: a guess equal to the target exhausted the attempts and its
\* handler has written the lost outcome.
C4_Witness ==
    \E t \in tasks :
        /\ t.kind = "guess" /\ t.al = Some(0) /\ t.target = Some(t.guess)
        /\ t.pc = "increment"
        /\ \E o \in outcomes : o.kind = "guess" /\ o.id = t.id /\ o.result = "lost"

\* the message guess handler i ended with
Response(i) == CHOOSE m \in messages : m.kind = "guess" /\ m.id = i

\* the scenario: range [1,10], attempts 3, target 7, the guesses 3, 9, 7 one
\* after the other, all handled, the timer of the game still asleep
ScenarioRun ==
    /\ settings = Some(ScenarioConfig)
    /\ nPlay = 1 /\ games = <<7>>
    /\ nGuess = 3 /\ Handlers = {}
    /\ Timers # {} /\ \A t \in Timers : t.pc = "sleep"
    /\ \A i \in 1..3 : \E m \in messages : m.kind = "guess" /\ m.id = i
    /\ Response(1).guess = 3 /\ Response(2).guess = 9 /\ Response(3).guess = 7

\* C5 as stated: the scenario answers too low, too high, won, and ends won
\* with 3 attempts consumed.
C5_ScenarioWon ==
    ScenarioRun =>
        /\ Response(1).key = "my_number_is_higher"
        /\ Response(2).key = "my_number_is_less"
        /\ Response(3).key = "won_game" /\ Response(3).n = Some(3)
        /\ \A o \in outcomes : o.result = "won"
        /\ gamesWon = 1

\* C5 amended: the scenario answers too low (2 attempts left), too high
\* (1 attempt left), lost by attempts, and ends lost: the third guess
\* exhausts the attempts, so it is not compared with the target.
C5_ScenarioLost ==
    ScenarioRun =>
        /\ Response(1).key = "my_number_is_higher" /\ Response(1).n = Some(2)
        /\ Response(2).key = "my_number_is_less" /\ Response(2).n = Some(1)
        /\ Response(3).key = "game_lost_attempts"
        /\ outcomes = {[game_id |-> 1, result |-> "lost", kind |-> "guess", id |-> 3]}
        /\ gamesLost = 1 /\ gamesWon = 0
        /\ fsmState = "out_game" /\ attemptsLeft = 0

\* C5 witness: the scenario has been played to its end.
C5_Witness == ScenarioRun /\ gamesLost = 1

\* C6: with stored settings that lack a value, no start request makes the
\* state ACTIVE, draws or stores a target, or starts a timer: none gets into
\* initialize_game, and each is answered with the request to complete the
\* settings.
C6_IncompleteNeverStarts ==
    (settings # None /\ Incomplete(The(settings))) =>
        /\ fsmState # "game" /\ dbState # "game"
        /\ Get(fsmData, "target_number") = None /\ games = <<>>
        /\ \A t \in tasks :
              /\ t.kind = "play" /\ t.target = None
              /\ t.pc \in {"load", "update_data", "get_data", "answer", "callback_answer"}
        /\ \A m \in messages : m.key = "missing_settings"

\* C6 witness: a start request with incomplete settings has been answered.
C6_Witness ==
    /\ settings # None /\ Incomplete(The(settings))
    /\ \E m \in messages : m.kind = "play" /\ m.key = "missing_settings"

\* C7: a guess handler decrements attempts_left (and goes on to compare and
\* finalize) only while the state is ACTIVE.
C7_NoEvaluationOnceEnded ==
    [][\A t \in Stepping :
          (t.kind = "guess" /\ t.pc = "decrement") => fsmState = "game"]_vars

\* C8: while the state is and stays ACTIVE, attempts_left changes only by
\* a decrease of exactly 1, but for the initial value stored by the start
\* request that made the state ACTIVE (one entered when it was not ACTIVE).
C8_AttemptsOnlyDecrease ==
    [][(fsmState = "game" /\ fsmState' = "game" /\ attemptsLeft' # attemptsLeft)
          => \/ attemptsLeft' = attemptsLeft - 1
             \/ \E t \in Stepping :
                   t.kind = "play" /\ t.pc = "set_attempts" /\ t.entered # "game"]_vars

\* C9: a session that is ACTIVE is eventually ENDED by its timer if by
\* nothing else; so whenever the state is ACTIVE, a timer or a coroutine
\* that goes on to start one is still to run.
C9_ActiveCanStillEnd ==
    (fsmState = "game") => ENABLED (game_timer_sleep \/ game_timer \/ HandlerStep)

\* C10: a start with an unresolved user id changes no state and starts
\* no timer.
C10_UnresolvedStartMutatesNothing ==
    [][\A t \in Stepping :
          (t.kind = "play" /\ t.uid = None)
          => UNCHANGED <<fsmState, dbState, fsmData, attemptsLeft, games>>]_vars

\* the outcome record task t has written
Written(t) ==
    {o \in outcomes : o.kind = t.kind /\ o.id = t.id /\ o.result = t.res}

\* C11: _game_lost and _game_won write the outcome record, then set the
\* state to ENDED, then persist it, then increment the counter: a coroutine
\* past the save has its record written, one past set_state sees the state
\* ENDED, one past save_user_state sees it persisted, and the counters count
\* only records whose coroutine is through with the increment, so they never
\* exceed the records.
C11_OutcomeBeforeCounter ==
    /\ \A t \in tasks :
          /\ t.pc \in {"set_out", "save_out", "increment"} => Written(t) # {}
          /\ t.pc \in {"save_out", "increment"} => fsmState = "out_game"
          /\ t.pc = "increment" => dbState = "out_game"
          /\ t.pc \in {"get_id", "save_result"} => Written(t) = {}
    /\ gamesWon + gamesLost =
          Cardinality({o \in outcomes :
                          ~ \E t \in tasks : /\ t.kind = o.kind /\ t.id = o.id
                                             /\ t.pc \in FinalizePcs})
    /\ gamesWon + gamesLost <= Cardinality(outcomes)

\* C11 witness: _game_won has run to its end: one won record, one win counted.
C11_Witness ==
    /\ gamesWon = 1 /\ tasks \ Timers = {}
    /\ \E o \in outcomes : o.result = "won"
    /\ fsmState = "out_game" /\ dbState = "out_game"

\* the user's latest game is stored, the state is ACTIVE and the game has no
\* outcome record
SessionActive ==
    /\ fsmState = "game"
    /\ games # <<>>
    /\ ~ \E o \in outcomes : o.game_id = Len(games)

\* C12: a start request that arrives while the user's session is ACTIVE
\* creates no session: while that session is ACTIVE, the request's coroutine
\* redraws no target, stores no game, resets no attempts_left and starts no
\* timer.
C12_NoStartWhileActive ==
    [][\A t \in Stepping :
          (t.kind = "play" /\ t.entered = "game" /\ SessionActive
             /\ t.session # Len(games))
          => /\ Get(fsmData', "target_number") = Get(fsmData, "target_number")
             /\ UNCHANGED <<games, attemptsLeft>>
             /\ Timers' \subseteq Timers]_vars

\* C13: the target drawn for a session lies in [range_start, range_end], and
\* while the session is ACTIVE its stored target is not written again.
C13_TargetFixedWhileActive ==
    [][/\ \A t \in Stepping :
             (t.kind = "play" /\ t.pc = "update_target")
             => /\ The(Get(fsmData', "target_number")) >= The(The(settings).range_start)
                /\ The(Get(fsmData', "target_number")) <= The(The(settings).range_end)
       /\ SessionActive
             => Get(fsmData', "target_number") = Get(fsmData, "target_number")]_vars

\* the message the step adds is a message of guess handler t with key k and
\* parameter n
Answers(t, k, n) ==
    \E m \in messages' \ messages :
        /\ messages' = messages \cup {m}
        /\ m.kind = "guess" /\ m.id = t.id /\ m.guess = t.guess
        /\ m.key = k /\ m.n = Some(n)

\* the step takes guess handler t to its answer with key k
GoesToAnswer(t, k) ==
    \E t2 \in tasks' \ tasks :
        /\ tasks' = (tasks \ {t}) \cup {t2}
        /\ t2.kind = "guess" /\ t2.id = t.id /\ t2.guess = t.guess
        /\ t2.pc = "answer" /\ t2.msg = k /\ t2.al = Some(attemptsLeft')

\* C14: a guess that leaves attempts_left > 0 is answered by its comparison
\* with the target of the session: below it, "too low", above it, "too
\* high", both with the attempts left and with the state, the outcome
\* records and the counters unchanged; equal to it, the handler runs
\* _game_won, and when that is through the session has a won record, the
\* state is ENDED, and the answer tells the attempts consumed.
C14_GuessAnswered ==
    [][\A t \in Stepping :
          /\ (t.kind = "guess" /\ t.pc = "decrement" /\ attemptsLeft' > 0)
             => LET target == games[Len(games)]
                IN  /\ t.guess < target => GoesToAnswer(t, "my_number_is_higher")
                    /\ t.guess > target => GoesToAnswer(t, "my_number_is_less")
                    /\ t.guess = target
                       => \E t2 \in tasks' \ tasks :
                             /\ t2.kind = "guess" /\ t2.id = t.id
                             /\ t2.pc = "load_settings" /\ t2.res = "won"
                    /\ UNCHANGED <<fsmState, dbState, outcomes, gamesWon,
                                   gamesLost, messages>>
          /\ (t.kind = "guess" /\ t.pc = "load_settings")
             => \E t2 \in tasks' \ tasks : t2.id = t.id /\ t2.pc = "get_id"
          /\ (t.kind = "guess" /\ t.pc = "answer"
                /\ t.msg \in {"my_number_is_higher", "my_number_is_less"})
             => /\ Answers(t, t.msg, The(t.al))
                /\ tasks' = tasks \ {t}
                /\ fsmState = "game" /\ Written(t) = {}
                /\ UNCHANGED <<fsmState, dbState, outcomes, gamesWon, gamesLost>>
          /\ (t.kind = "guess" /\ t.pc = "answer" /\ t.res = "won")
             => /\ \E o \in outcomes : o.game_id = Len(games) /\ o.result = "won"
                /\ fsmState = "out_game" /\ dbState = "out_game"
                /\ gamesWon >= 1
                /\ Answers(t, "won_game",
                           The(The(settings).attempts) - The(t.al))]_vars

\* C14 witness: a guess above the target was answered with the hint and 2
\* attempts left, and the next guess, equal to the target, has won the game
\* with 2 attempts consumed.
C14_Witness ==
    /\ \E m \in messages :
          m.key = "my_number_is_less" /\ m.guess = 9 /\ m.n = Some(2)
    /\ \E m \in messages :
          m.key = "won_game" /\ m.guess = 7 /\ m.n = Some(2)
    /\ fsmState = "out_game" /\ gamesWon = 1 /\ games = <<7>>

\* C15: with no stored settings record every start request is answered with
\* the settings error alone: no list of missing settings is computed or
\* sent, the state data, the session state, the target and attempts_left
\* stay as they were, and no game and no timer is started.
C15_AbsentSettingsPath ==
    settings = None =>
        /\ \A m \in messages :
              m.kind = "play" /\ m.key = "my_settings_error" /\ m.missing = <<>>
        /\ \A t \in tasks :
              /\ t.kind = "play" /\ t.missing = <<>> /\ t.data = NoData
              /\ \/ t.pc = "load"
                 \/ t.pc = "answer" /\ t.msg = "my_settings_error"
                 \/ t.pc = "callback_answer" /\ t.msg = "my_settings_error"
        /\ Cardinality(messages)
              + Cardinality({t \in tasks : t.pc \in {"load", "answer"}}) = nPlay
        /\ fsmState = "none" /\ dbState = "none"
        /\ fsmData = NoData /\ games = <<>> /\ attemptsLeft = 0

\* C15 witness: a start request with no stored settings has been answered
\* with the settings error.
C15_Witness ==
    /\ settings = None /\ nPlay = 1 /\ tasks = {}
    /\ \E m \in messages : m.key = "my_settings_error" /\ m.id = 1

\* name x is an entry of list s
Listed(s, x) == \E i \in 1..Len(s) : s[i] = x

\* the place of a name in the order range, time limit, attempt count
Rank(x) == CASE x = "range" -> 1 [] x = "time" -> 2 [] x = "attempts" -> 3

\* C16: for a stored settings record the list of check_missing_settings
\* holds the range iff range_start or range_end is unset, the time limit
\* iff time_limit is unset, the attempt count iff attempts is unset, each
\* once and in this order; it is empty iff all four are set (a start request
\* is answered with the list iff the record lacks a value), and the check
\* itself writes nothing: the state data holds the settings as loaded.
C16_MissingExactlyUnset ==
    settings # None =>
        LET c == The(settings)
            lists == {m.missing : m \in {m \in messages : m.key = "missing_settings"}}
                        \cup {t.missing : t \in {t \in tasks : t.pc = "answer"}}
            checked == {t \in tasks : t.kind = "play" /\ t.uid # None
                                        /\ t.pc \notin {"load", "update_data", "get_data"}}
        IN  /\ \A s \in lists :
                  /\ Listed(s, "range")
                        <=> (c.range_start = None \/ c.range_end = None)
                  /\ Listed(s, "time") <=> c.time_limit = None
                  /\ Listed(s, "attempts") <=> c.attempts = None
                  /\ \A i \in 1..Len(s) : s[i] \in {"range", "time", "attempts"}
                  /\ \A i, j \in 1..Len(s) : i < j => Rank(s[i]) < Rank(s[j])
            /\ \A t \in checked : (t.missing = <<>>) <=> ~Incomplete(c)
            /\ \A t \in checked : (t.missing # <<>>) <=> (t.msg = "missing_settings")
            /\ \A m \in messages : (m.key = "missing_settings") <=> (m.missing # <<>>)
            /\ \A m \in messages : (m.key = "missing_settings") => Incomplete(c)
            /\ \A t \in checked :
                  t.missing # <<>> => (fsmData = Dict(c) /\ t.data = Dict(c))

\* C16 witness: with only range_end and time_limit unset, the start request
\* was answered with the list range, time limit.
C16_Witness ==
    /\ settings # None
    /\ The(settings).range_start # None /\ The(settings).range_end = None
    /\ The(settings).time_limit = None /\ The(settings).attempts # None
    /\ \E m \in messages : m.key = "missing_settings" /\ m.missing = <<"range", "time">>

\* C17: a guess handler that reads the state data while the state is ACTIVE
\* reads the target of the session that made the state ACTIVE: the target it
\* reads is set, and no start request that made the state ACTIVE is still to
\* store the target it has drawn.
C17_GuessReadsOwnTarget ==
    [][\A g \in Stepping :
          (g.kind = "guess" /\ g.pc = "get_data" /\ fsmState = "game")
          => /\ Get(fsmData, "target_number") # None
             /\ ~ \E p \in tasks :
                    /\ p.kind = "play" /\ p.entered # "game"
                    /\ p.pc \in {"save_state", "update_target"}]_vars

\* C18: attempts_left is never negative.
C18_AttemptsNeverNegative == attemptsLeft >= 0

\* the messages that tell the end of a game (won_game, game_lost_attempts,
\* game_lost_time)
Terminal ==
    {m \in messages : m.key \in {"won_game", "game_lost_attempts", "game_lost_time"}}

\* C19: no game has two messages about its end: of 'won', 'lost by
\* attempts' and 'lost by time' the user gets at most one per game.
C19_OneTerminalMessage ==
    \A m1, m2 \in Terminal : m1.game_id = m2.game_id => m1 = m2

\* C20: whenever no handler and no timer is in progress, the FSM state and
\* the persisted user state are the same.
C20_StatesAgreeAtRest ==
    tasks = {} => fsmState = dbState

=============================================================================
